---- MODULE Spec2Model ----
(***************************************************************************)
(* A model of miniply-perf: the mesh extraction routine                    *)
(* parse_file_with_miniply, the TriMesh it fills and validates, and the    *)
(* batch harness in main that resolves the input files, extracts each one  *)
(* and tallies the outcomes.  The PLY decoder (miniply::PLYReader) is the   *)
(* Record Source: it is modelled by what its interface promises.           *)
(***************************************************************************)
EXTENDS Integers, Sequences, FiniteSets, TLC

(***************************************************************************)
(* Bounds of the model.                                                    *)
(***************************************************************************)
MaxVerts == 1
MaxFaces == 2
MaxElems == 3
MaxArgs == 3
MaxLines == 2
MaxClock == 4

(***************************************************************************)
(* C strings are sequences of characters.                                  *)
(***************************************************************************)
kAssumeTrianglesFlag == <<"-","-","a","s","s","u","m","e","-","t","r","i","a","n","g","l","e","s">>
kTxtExtension == <<"t","x","t">>
NameA == <<"a",".","p","l","y">>
NameB == <<"b",".","p","l","y">>
NameList == <<"l",".","t","x","t">>
EmptyName == <<>>
Newline == "\n"

kPLYVertexElement == "vertex"
kPLYFaceElement == "face"
kTristripsElement == "tristrips"
kOtherElement == "material"

(***************************************************************************)
(* The Record Source: a decoded file is a sequence of elements; an element *)
(* has a name, whether its rows can be loaded, the properties its rows     *)
(* carry, a row count and (for list properties) one index list per row.    *)
(***************************************************************************)
Element(name, ok, props, nrows, lists) ==
  [name |-> name, ok |-> ok, props |-> props, nrows |-> nrows, lists |-> lists]

VertexElem(n, props, ok) == Element(kPLYVertexElement, ok, props, n, <<>>)
FaceElem(lists, props, ok) == Element(kPLYFaceElement, ok, props, Len(lists), lists)
StripElem(lists, props, ok) == Element(kTristripsElement, ok, props, Len(lists), lists)
OtherElem == Element(kOtherElement, TRUE, {}, 0, <<>>)

\* A file the reader cannot decode at all (unreadable, malformed header).
InvalidFile == [valid |-> FALSE, elems |-> <<>>]
PlyFile(elems) == [valid |-> TRUE, elems |-> elems]

RECURSIVE Flatten(_)
Flatten(lists) ==
  IF lists = <<>> THEN <<>> ELSE Head(lists) \o Flatten(Tail(lists))

RECURSIVE FanTriangles(_, _)
\* Fan decomposition of one polygon from its first vertex, starting at i.
FanTriangles(row, i) ==
  IF i + 1 > Len(row) THEN <<>>
  ELSE <<row[1], row[i], row[i + 1]>> \o FanTriangles(row, i + 1)

RECURSIVE TriangulateAll(_)
TriangulateAll(lists) ==
  IF lists = <<>> THEN <<>>
  ELSE FanTriangles(Head(lists), 2) \o TriangulateAll(Tail(lists))

valid(file) == file.valid

\* Index (1-based) of the first element with the given name, 0 when none.
find_element(file, name) ==
  IF \E i \in 1..Len(file.elems) : file.elems[i].name = name
  THEN CHOOSE i \in 1..Len(file.elems) :
         /\ file.elems[i].name = name
         /\ \A j \in 1..(i - 1) : file.elems[j].name # name
  ELSE 0

find_property(e, name) == name \in e.props

\* Coercion of the list property to a fixed row width: fails when the
\* property is absent or some row's length differs from the width.
convert_list_to_fixed_size(e, found, width) ==
  found /\ \A r \in 1..Len(e.lists) : Len(e.lists[r]) = width

load_element(e) == e.ok
num_rows(e) == e.nrows
find_pos(e) == "pos" \in e.props
find_normal(e) == "normal" \in e.props
find_texcoord(e) == "uv" \in e.props
find_color_rgba(e) == "color" \in e.props
find_indices(e) == "vertex_indices" \in e.props \/ "vertex_index" \in e.props

\* The value the file holds for component c of attribute attr in row r.
RowValue(attr, r, c) == <<attr, r, c>>

\* Extraction of ncomp scalar properties of every row into a flat buffer.
extract_properties(e, attr, ncomp) ==
  [k \in 1..(e.nrows * ncomp) |->
     RowValue(attr, ((k - 1) \div ncomp) + 1, ((k - 1) % ncomp) + 1)]

requires_triangulation(e) == \E r \in 1..Len(e.lists) : Len(e.lists[r]) # 3
num_triangles(e) == Len(TriangulateAll(e.lists)) \div 3
extract_triangles(e) == TriangulateAll(e.lists)
extract_list_property(e) == Flatten(e.lists)
sum_of_list_counts(e) == Len(Flatten(e.lists))


(***************************************************************************)
(* Timer (lines 14-59).  A time point is a number of clock ticks since the *)
(* clock's epoch, and elapsedMS is counted in the same ticks.  The clock   *)
(* argument of an operator is what high_resolution_clock::now() returns    *)
(* when the member function runs.                                          *)
(***************************************************************************)
\* Lines 24-26: the members as their default initializers leave them.
DefaultTimer == [start |-> 0, stop |-> 0, running |-> FALSE]

\* Lines 45-51.
stop(t, clock) ==
  IF t.running THEN [t EXCEPT !.stop = clock, !.running = FALSE] ELSE t

\* Lines 38-42.
start(t, clock) == [t EXCEPT !.start = clock, !.stop = clock, !.running = TRUE]

\* Lines 30-35.
Timer(autostart, clock) ==
  IF autostart THEN start(DefaultTimer, clock) ELSE DefaultTimer

elapsedMS_NeverFrozen(t, clock) == clock - t.start

\* Lines 54-59.
elapsedMS(t, clock) == (IF t.running THEN clock ELSE t.stop) - t.start

(***************************************************************************)
(* TriMesh.  A buffer is a pointer: null, or an allocated array.  A mesh   *)
(* pointer is a sequence: <<>> is nullptr, <<m>> points at the mesh m.     *)
(***************************************************************************)
NullBuf == [alloc |-> FALSE, data |-> <<>>]
Buf(data) == [alloc |-> TRUE, data |-> data]
\* new T[n] for a scalar T: n elements holding whatever the heap held.
Uninitialized(n, junk) == [k \in 1..n |-> junk]

NullPtr == <<>>
PtrTo(m) == <<m>>

TriMesh ==
  [pos |-> NullBuf, normal |-> NullBuf, uv |-> NullBuf, color |-> NullBuf,
   numVerts |-> 0, indices |-> NullBuf, numIndices |-> 0,
   topology |-> "Soup", hasTerminator |-> FALSE, terminator |-> -1]

\* The heap, as far as this program uses it: how many arrays made by new[]
\* and how many TriMesh objects are allocated and not yet deleted.
EmptyHeap == [arrays |-> 0, meshes |-> 0]
NonNull(buf) == IF buf.alloc THEN 1 ELSE 0
\* Lines 100-106 under a delete expression: the five arrays the mesh points
\* at are deleted, then the mesh; deleting nullptr does nothing.
DeleteTriMesh(heap, ptr) ==
  IF ptr = NullPtr THEN heap
  ELSE LET m == ptr[1]
       IN [arrays |-> heap.arrays - (NonNull(m.pos) + NonNull(m.normal) + NonNull(m.uv)
                                     + NonNull(m.color) + NonNull(m.indices)),
           meshes |-> heap.meshes - 1]

all_indices_valid_first_only(m) ==
  LET checkTerminator ==
        /\ m.topology # "Soup"
        /\ m.hasTerminator
        /\ (m.terminator < 0 \/ m.terminator >= m.numVerts)
  IN \A i \in 1..m.numIndices :
       i = 1 =>
         \/ checkTerminator /\ m.indices.data[i] = m.terminator
         \/ ~(m.indices.data[i] < 0 \/ m.indices.data[i] >= m.numVerts)

all_indices_valid_OffByOne(m) ==
  LET checkTerminator ==
        /\ m.topology # "Soup"
        /\ m.hasTerminator
        /\ (m.terminator < 0 \/ m.terminator >= m.numVerts)
  IN \A i \in 1..m.numIndices :
       \/ checkTerminator /\ m.indices.data[i] = m.terminator
       \/ ~(m.indices.data[i] < 0 \/ m.indices.data[i] > m.numVerts)

all_indices_valid(m) ==
  LET checkTerminator ==
        /\ m.topology # "Soup"
        /\ m.hasTerminator
        /\ (m.terminator < 0 \/ m.terminator >= m.numVerts)
  IN \A i \in 1..m.numIndices :
       \/ checkTerminator /\ m.indices.data[i] = m.terminator
       \/ ~(m.indices.data[i] < 0 \/ m.indices.data[i] >= m.numVerts)

(***************************************************************************)
(* parse_file_with_miniply.  Its locals are one record: the reader (file,  *)
(* current element idx, the element converted to fixed size), the          *)
(* assumeTriangles parameter, gotVerts, gotFaces, the trimesh pointer, the *)
(* position in the function (at), the returned pointer, what this call     *)
(* wrote to stderr, the reader calls it made that load or triangulate, and *)
(* what it has allocated and not deleted (heap).                           *)
(***************************************************************************)
kOrderingError == <<"Error: face data needing triangulation found before vertex data.">>
kStripLoadError == <<"Error: failed to load tri strips.">>
kStripPropError == <<"Error: couldn't find 'vertex_indices' property for the 'tristrips' element.">>

has_element(ps) == ps.idx <= Len(ps.file.elems)
element(ps) == ps.file.elems[ps.idx]
element_is(ps, name) == element(ps).name = name
next_element(ps) == [ps EXCEPT !.idx = @ + 1]
Break(ps) == [ps EXCEPT !.at = "validate"]
Return(ps, ptr) == [ps EXCEPT !.at = "returned", !.result = ptr]
Called(ps, op) == [ps EXCEPT !.calls = Append(@, <<op, ps.idx>>)]
Wrote(ps, msg) == [ps EXCEPT !.err = Append(@, msg)]

\* Lines 125-128: construct the reader; the locals before anything else ran.
Enter(file, assumeTriangles) ==
  [file |-> file, idx |-> 1, fixed |-> 0, assumeTriangles |-> assumeTriangles,
   gotVerts |-> FALSE, gotFaces |-> FALSE, trimesh |-> NullPtr,
   at |-> "open", result |-> NullPtr, err |-> <<>>, calls |-> <<>>,
   heap |-> EmptyHeap]

FastPathSetup_FailOnDemotion(ps) ==
  LET faceIdx == find_element(ps.file, kPLYFaceElement)
      faceElem == ps.file.elems[faceIdx]
      converted == convert_list_to_fixed_size(
                     faceElem, find_property(faceElem, "vertex_indices"), 3)
  IN IF faceIdx = 0 \/ ~converted THEN Return(ps, NullPtr)
     ELSE [ps EXCEPT !.assumeTriangles = converted, !.fixed = faceIdx]

\* Lines 130-137: the triangle fast path is taken only if the face element
\* exists and its index list converts to three fixed properties.
FastPathSetup(ps) ==
  LET faceIdx == find_element(ps.file, kPLYFaceElement)
      faceElem == ps.file.elems[faceIdx]
      converted == convert_list_to_fixed_size(
                     faceElem, find_property(faceElem, "vertex_indices"), 3)
  IN IF faceIdx = 0 THEN Return(ps, NullPtr)
     ELSE [ps EXCEPT !.assumeTriangles = converted,
                     !.fixed = IF converted THEN faceIdx ELSE 0]

\* Lines 125-142: up to the allocation of the mesh.
OpenReader(ps) ==
  IF ~valid(ps.file) THEN Return(ps, NullPtr)
  ELSE LET s1 == IF ps.assumeTriangles THEN FastPathSetup(ps) ELSE ps
       IN IF s1.at = "returned" THEN s1
          ELSE [s1 EXCEPT !.trimesh = PtrTo(TriMesh), !.heap.meshes = @ + 1,
                          !.at = "loop"]

\* Line 143.
LoopCondition(ps) == has_element(ps) /\ (~ps.gotVerts \/ ~ps.gotFaces)

\* Lines 144-164.
VertexBranch(ps) ==
  LET e == element(ps)
      s1 == Called(ps, "load_element")
      m == ps.trimesh[1]
      n == num_rows(e)
      m1 == [m EXCEPT
               !.numVerts = n,
               !.pos = Buf(extract_properties(e, "pos", 3)),
               !.normal = IF find_normal(e)
                          THEN Buf(extract_properties(e, "normal", 3)) ELSE @,
               !.uv = IF find_texcoord(e)
                      THEN Buf(extract_properties(e, "uv", 2)) ELSE @,
               !.color = IF find_color_rgba(e)
                         THEN Buf(extract_properties(e, "color", 4)) ELSE @]
      news == 1 + (IF find_normal(e) THEN 1 ELSE 0)
                + (IF find_texcoord(e) THEN 1 ELSE 0)
                + (IF find_color_rgba(e) THEN 1 ELSE 0)
  IN IF ~load_element(e) \/ ~find_pos(e) THEN Break(s1)
     ELSE next_element([s1 EXCEPT !.trimesh = PtrTo(m1), !.gotVerts = TRUE,
                                  !.heap.arrays = @ + news])

FastFaces_OneIndexPerRow(ps, junk) ==
  LET e == element(ps)
      m == ps.trimesh[1]
      n == num_rows(e)
  IN [m EXCEPT !.numIndices = n,
               !.indices = Buf(IF ps.fixed = ps.idx
                               THEN extract_list_property(e)
                               ELSE Uninitialized(n, junk))]

\* Lines 169-173: three fixed properties per row, read as ints.  They exist
\* only on the element the fast-path setup converted; otherwise nothing is
\* written into the new array.
FastFaces(ps, junk) ==
  LET e == element(ps)
      m == ps.trimesh[1]
      n == num_rows(e) * 3
  IN [m EXCEPT !.numIndices = n,
               !.indices = Buf(IF ps.fixed = ps.idx
                               THEN extract_list_property(e)
                               ELSE Uninitialized(n, junk))]

TriangulatedFaces_CountsCorners(ps) ==
  LET e == element(ps)
      m == ps.trimesh[1]
  IN [m EXCEPT !.numIndices = sum_of_list_counts(e),
               !.indices = Buf(extract_triangles(e))]

\* Lines 184-188.
TriangulatedFaces(ps) ==
  LET e == element(ps)
      m == ps.trimesh[1]
  IN [m EXCEPT !.numIndices = num_triangles(e) * 3,
               !.indices = Buf(extract_triangles(e))]

\* Lines 189-193.
DirectFaces(ps) ==
  LET e == element(ps)
      m == ps.trimesh[1]
  IN [m EXCEPT !.numIndices = num_rows(e) * 3,
               !.indices = Buf(extract_list_property(e))]

FaceBranch_NoOrderingCheck(ps, junk) ==
  LET e == element(ps)
      s1 == Called(ps, "load_element")
      polys == requires_triangulation(e)
      done(s, m) == next_element([s EXCEPT !.trimesh = PtrTo(m), !.gotFaces = TRUE,
                                           !.heap.arrays = @ + 1])
  IN IF ~load_element(e) THEN Break(s1)
     ELSE IF ps.assumeTriangles THEN done(s1, FastFaces(ps, junk))
     ELSE IF ~find_indices(e) THEN Break(s1)
     ELSE IF polys THEN done(Called(s1, "extract_triangles"), TriangulatedFaces(ps))
     ELSE done(s1, DirectFaces(ps))

\* Lines 165-196.
FaceBranch(ps, junk) ==
  LET e == element(ps)
      s1 == Called(ps, "load_element")
      polys == requires_triangulation(e)
      done(s, m) == next_element([s EXCEPT !.trimesh = PtrTo(m), !.gotFaces = TRUE,
                                           !.heap.arrays = @ + 1])
  IN IF ~load_element(e) THEN Break(s1)
     ELSE IF ps.assumeTriangles THEN done(s1, FastFaces(ps, junk))
     ELSE IF ~find_indices(e) THEN Break(s1)
     ELSE IF polys /\ ~ps.gotVerts THEN Break(Wrote(s1, kOrderingError))
     ELSE IF polys THEN done(Called(s1, "extract_triangles"), TriangulatedFaces(ps))
     ELSE done(s1, DirectFaces(ps))

TristripsBranch_NoTerminator(ps) ==
  LET e == element(ps)
      s1 == Called(ps, "load_element")
      m == ps.trimesh[1]
      m1 == [m EXCEPT !.numIndices = sum_of_list_counts(e),
                      !.indices = Buf(extract_list_property(e)),
                      !.topology = "Strip"]
  IN IF ~load_element(e) THEN Break(Wrote(s1, kStripLoadError))
     ELSE IF ~find_property(e, "vertex_indices") THEN Break(Wrote(s1, kStripPropError))
     ELSE next_element([s1 EXCEPT !.trimesh = PtrTo(m1), !.gotFaces = TRUE,
                                  !.heap.arrays = @ + 1])

\* Lines 197-216.
TristripsBranch(ps) ==
  LET e == element(ps)
      s1 == Called(ps, "load_element")
      m == ps.trimesh[1]
      m1 == [m EXCEPT !.numIndices = sum_of_list_counts(e),
                      !.indices = Buf(extract_list_property(e)),
                      !.topology = "Strip",
                      !.hasTerminator = TRUE,
                      !.terminator = -1]
  IN IF ~load_element(e) THEN Break(Wrote(s1, kStripLoadError))
     ELSE IF ~find_property(e, "vertex_indices") THEN Break(Wrote(s1, kStripPropError))
     ELSE next_element([s1 EXCEPT !.trimesh = PtrTo(m1), !.gotFaces = TRUE,
                                  !.heap.arrays = @ + 1])

\* Which branch of the loop body (lines 144, 165, 197) the current element takes.
Branch(ps) ==
  IF element_is(ps, kPLYVertexElement) THEN "vertex"
  ELSE IF ~ps.gotFaces /\ element_is(ps, kPLYFaceElement) THEN "face"
  ELSE IF ~ps.gotFaces /\ element_is(ps, kTristripsElement) THEN "tristrips"
  ELSE "skip"

\* Lines 143-218: one iteration of the element loop.
LoopBody(ps, junk) ==
  CASE Branch(ps) = "vertex" -> VertexBranch(ps)
    [] Branch(ps) = "face" -> FaceBranch(ps, junk)
    [] Branch(ps) = "tristrips" -> TristripsBranch(ps)
    [] OTHER -> next_element(ps)

Validate_NoElementCheck(ps) ==
  LET m == ps.trimesh[1]
  IN IF ~all_indices_valid(m)
     THEN Return([ps EXCEPT !.trimesh = NullPtr,
                            !.heap = DeleteTriMesh(@, ps.trimesh)], NullPtr)
     ELSE Return(ps, ps.trimesh)

\* Lines 220-225.
Validate(ps) ==
  LET m == ps.trimesh[1]
  IN IF ~ps.gotVerts \/ ~ps.gotFaces \/ ~all_indices_valid(m)
     THEN Return([ps EXCEPT !.trimesh = NullPtr,
                            !.heap = DeleteTriMesh(@, ps.trimesh)], NullPtr)
     ELSE Return(ps, ps.trimesh)

\* One step of the function from wherever it is.
ParseStep(ps, junk) ==
  CASE ps.at = "open" -> OpenReader(ps)
    [] ps.at = "loop" /\ LoopCondition(ps) -> LoopBody(ps, junk)
    [] ps.at = "loop" /\ ~LoopCondition(ps) -> Validate(ps)
    [] ps.at = "validate" -> Validate(ps)
    [] OTHER -> ps

RECURSIVE RunToReturn(_, _)
RunToReturn(ps, junk) ==
  IF ps.at = "returned" THEN ps ELSE RunToReturn(ParseStep(ps, junk), junk)

\* Lines 123-226: the whole call, as a function of the file and the flag.
parse_file_with_miniply(file, assumeTriangles, junk) ==
  RunToReturn(Enter(file, assumeTriangles), junk).result


(***************************************************************************)
(* The inputs: the decoded files and list files the model draws from.      *)
(***************************************************************************)
IndexValues == -1..MaxVerts
RowLens == {3, 4}
Row(len, v) == [k \in 1..len |-> v]
Rows == {Row(len, v) : len \in RowLens, v \in IndexValues}
SeqsUpTo(S, n) == UNION {[1..k -> S] : k \in 0..n}
IndexLists == SeqsUpTo(Rows, MaxFaces)
OptionalAttrs == {"normal", "uv", "color"}

\* Files of a vertex element and one index element, in either order, the
\* index lists drawn from all of IndexLists.
DataVertexElems ==
  {VertexElem(n, props, TRUE) :
     n \in 0..MaxVerts, props \in {{"pos"}, {"pos"} \cup OptionalAttrs, {}}}
  \cup {VertexElem(n, {"pos"}, FALSE) : n \in 0..MaxVerts}
DataIndexElems ==
  {FaceElem(l, {"vertex_indices"}, TRUE) : l \in IndexLists}
  \cup {StripElem(l, {"vertex_indices"}, TRUE) : l \in IndexLists}
  \cup {FaceElem(l, props, ok) :
          l \in SeqsUpTo(Rows, 1),
          props \in {{"vertex_index"}, {}}, ok \in BOOLEAN}
  \cup {StripElem(l, {}, ok) : l \in SeqsUpTo(Rows, 1), ok \in BOOLEAN}
DataCorpus ==
  {PlyFile(<<v, x>>) : v \in DataVertexElems, x \in DataIndexElems}
  \cup {PlyFile(<<x, v>>) : v \in DataVertexElems, x \in DataIndexElems}

\* Files of up to MaxElems elements in any order, repeats included, drawn
\* from a few elements of each name.
BasicElems ==
  { VertexElem(MaxVerts, {"pos"}, TRUE),
    VertexElem(0, {"pos", "normal"}, TRUE),
    VertexElem(MaxVerts, {"normal"}, TRUE),
    FaceElem(<<Row(3, 0)>>, {"vertex_indices"}, TRUE),
    FaceElem(<<Row(3, 0), Row(4, 0)>>, {"vertex_indices"}, TRUE),
    FaceElem(<<Row(3, MaxVerts)>>, {"vertex_indices"}, TRUE),
    StripElem(<<Row(4, 0), Row(3, -1)>>, {"vertex_indices"}, TRUE),
    StripElem(<<Row(3, 0)>>, {"vertex_indices"}, FALSE),
    OtherElem }
OrderCorpus == {PlyFile(es) : es \in SeqsUpTo(BasicElems, MaxElems)}

\* Files whose vertex element carries any set of attributes.
AttrCorpus ==
  {PlyFile(<<VertexElem(n, props, TRUE), FaceElem(<<Row(3, 0)>>, {"vertex_indices"}, TRUE)>>) :
     n \in 0..MaxVerts, props \in SUBSET ({"pos"} \cup OptionalAttrs)}

Corpus == DataCorpus \cup OrderCorpus \cup AttrCorpus \cup {InvalidFile}

\* A well-formed triangle file, and one whose only index equals vertexCount.
GoodFile ==
  PlyFile(<<VertexElem(MaxVerts, {"pos"}, TRUE),
            FaceElem(<<Row(3, 0)>>, {"vertex_indices"}, TRUE)>>)
BadFile ==
  PlyFile(<<VertexElem(MaxVerts, {"pos"}, TRUE),
            FaceElem(<<Row(3, MaxVerts)>>, {"vertex_indices"}, TRUE)>>)

\* A disk holding the given file under the name a.ply and nothing else.
DiskOf(file) == [n \in {NameA} |-> file]
\* A file whose faces make the fast path fall back, and one whose outcome
\* differs with the flag: it has tristrips and no face element.
PolyFile ==
  PlyFile(<<VertexElem(MaxVerts, {"pos"}, TRUE),
            FaceElem(<<Row(3, 0), Row(4, 0)>>, {"vertex_indices"}, TRUE)>>)
StripFile ==
  PlyFile(<<VertexElem(MaxVerts, {"pos"}, TRUE),
            StripElem(<<Row(4, 0), Row(3, -1)>>, {"vertex_indices"}, TRUE)>>)
BatchDisks ==
  { [n \in {NameA, NameB} |-> IF n = NameA THEN GoodFile ELSE BadFile],
    [n \in {NameA, NameB} |-> IF n = NameA THEN BadFile ELSE GoodFile],
    [n \in {NameA, NameB} |-> IF n = NameA THEN PolyFile ELSE StripFile] }

\* The lines of a list file: each ends in a newline, except perhaps the last.
Terminated == {NameA \o <<Newline>>, NameB \o <<Newline>>, <<Newline>>}
Unterminated == {NameA}
ListContents ==
  {<<>>} \cup
  UNION {{front \o <<last>> : front \in [1..k -> Terminated],
                              last \in Terminated \cup Unterminated} :
         k \in 0..(MaxLines - 1)}
NoListFiles == [n \in {} |-> <<>>]
ListFilesOf(content) == [n \in {NameList} |-> content]

Args == {kAssumeTrianglesFlag, NameA, NameList}
Argvs == SeqsUpTo(Args, MaxArgs)


(***************************************************************************)
(* main.  argv holds the arguments after the program name.                 *)
(***************************************************************************)
VARIABLES
  argv,             \* the command line arguments argv[1..argc-1]
  disk,             \* the PLY files that exist, by name
  listFiles,        \* the list files that can be opened, by name
  pc,               \* where main is
  assumeTriangles,  \* main's flag
  argIdx,           \* i of the resolving loop (1-based)
  lineIdx,          \* the next line fgets will read from the open list file
  filenames,        \* the resolved filenames
  width,            \* the report's column width
  fileIdx,          \* position of the batch loop in filenames (1-based)
  parse,            \* the locals of the running parse_file_with_miniply call
  numPassed,
  numFailed,
  stdout,           \* the lines printed so far
  stderr,           \* the diagnostics printed so far
  exitStatus,       \* what main returned, "none" until it returns
  now,              \* what high_resolution_clock::now() returns
  overallTimer,     \* main's overallTimer
  timer,            \* main's per-file timer; the timer under test in SpecTimer
  heap,             \* the arrays and meshes allocated and not deleted
  trace,            \* history: the batch loop's events, each with its time
  history,          \* history: the start() and stop() calls made on timer
  ret               \* what the last elapsedMS() call returned, and when

vars == <<argv, disk, listFiles, pc, assumeTriangles, argIdx, lineIdx, filenames,
          width, fileIdx, parse, numPassed, numFailed, stdout, stderr, exitStatus,
          now, overallTimer, timer, heap, trace, history, ret>>

NoCall == [Enter(InvalidFile, FALSE) EXCEPT !.at = "none"]

\* The clock is monotonic; every step of the program takes one tick of it.
Elapse(ticks) == now' = now + ticks
Event(name, file, time) == [event |-> name, file |-> file, time |-> time]
NoHistory == [state |-> "never", started |-> 0, stopped |-> 0]
NoReading == [value |-> 0, at |-> -1]
\* Lines 242-290: before the batch no timer exists and nothing is allocated.
OutsideBatch ==
  /\ Elapse(1)
  /\ UNCHANGED <<overallTimer, timer, heap, trace, history, ret>>

\* Lines 229-237.
has_extension(filename, ext) ==
  LET j == Len(ext)
      i == Len(filename) - j
  IN IF i <= 0 \/ filename[i] # "." THEN FALSE
     ELSE SubSeq(filename, i + 1, Len(filename)) = ext

\* PLYReader's constructor: a name that is not on the disk cannot be opened.
OpenPly(name) == IF name \in DOMAIN disk THEN disk[name] ELSE InvalidFile
fopen_ok(name) == name \in DOMAIN listFiles

RECURSIVE MaxWidth(_)
\* Lines 284-290.
MaxWidth(names) ==
  IF names = <<>> THEN 0
  ELSE LET rest == MaxWidth(Tail(names))
       IN IF Len(Head(names)) > rest THEN Len(Head(names)) ELSE rest

RECURSIVE PopNewlines(_)
\* Lines 264-266, for as long as the string is not empty.
PopNewlines(str) ==
  IF str # <<>> /\ str[Len(str)] = Newline
  THEN PopNewlines(SubSeq(str, 1, Len(str) - 1))
  ELSE str

\* Lines 262-267 over a whole list file, the empty string a blank line leaves
\* being kept.
ReadLines(content) == [k \in 1..Len(content) |-> PopNewlines(content[k])]

\* Lines 256-276: the filenames one argument adds.
ResolveArg(arg, lists) ==
  IF arg[1] = "-" THEN <<>>
  ELSE IF has_extension(arg, kTxtExtension)
       THEN IF arg \in DOMAIN lists THEN ReadLines(lists[arg]) ELSE <<>>
       ELSE <<arg>>

RECURSIVE ResolveArgs(_, _)
\* Lines 254-277: the filenames a run of the loop over args gives when it
\* runs to its end.
ResolveArgs(args, lists) ==
  IF args = <<>> THEN <<>>
  ELSE ResolveArg(Head(args), lists) \o ResolveArgs(Tail(args), lists)

InitCommon ==
  /\ pc = "flags"
  /\ assumeTriangles = FALSE
  /\ argIdx = 1
  /\ lineIdx = 0
  /\ filenames = <<>>
  /\ width = 0
  /\ fileIdx = 0
  /\ parse = NoCall
  /\ numPassed = 0
  /\ numFailed = 0
  /\ stdout = <<>>
  /\ stderr = <<>>
  /\ exitStatus = "none"
  /\ now = 0
  /\ overallTimer = DefaultTimer
  /\ timer = DefaultTimer
  /\ heap = EmptyHeap
  /\ trace = <<>>
  /\ history = NoHistory
  /\ ret = NoReading

\* One file, any file of the corpus, with and without the flag.
InitExtract ==
  /\ argv \in {<<NameA>>, <<kAssumeTrianglesFlag, NameA>>}
  /\ disk \in {DiskOf(file) : file \in Corpus}
  /\ listFiles = NoListFiles
  /\ InitCommon

\* Any command line, over a disk of two files.
InitBatch ==
  /\ argv \in Argvs
  /\ disk \in BatchDisks
  /\ listFiles \in
       IF \E i \in 1..Len(argv) : argv[i] = NameList
       THEN {NoListFiles} \cup {ListFilesOf(c) : c \in ListContents}
       ELSE {NoListFiles}
  /\ InitCommon

Init == InitExtract \/ InitBatch

\* Lines 246-252.
ScanFlags ==
  /\ pc = "flags"
  /\ assumeTriangles' = (\E i \in 1..Len(argv) : argv[i] = kAssumeTrianglesFlag)
  /\ pc' = "args"
  /\ UNCHANGED <<argv, disk, listFiles, argIdx, lineIdx, filenames, width, fileIdx,
                 parse, numPassed, numFailed, stdout, stderr, exitStatus>>
  /\ OutsideBatch

\* Lines 256-258.
SkipOption ==
  /\ pc = "args"
  /\ argIdx <= Len(argv)
  /\ argv[argIdx][1] = "-"
  /\ argIdx' = argIdx + 1
  /\ UNCHANGED <<argv, disk, listFiles, pc, assumeTriangles, lineIdx, filenames,
                 width, fileIdx, parse, numPassed, numFailed, stdout, stderr, exitStatus>>
  /\ OutsideBatch

\* Lines 259-261.
OpenListFile ==
  /\ pc = "args"
  /\ argIdx <= Len(argv)
  /\ argv[argIdx][1] # "-"
  /\ has_extension(argv[argIdx], kTxtExtension)
  /\ fopen_ok(argv[argIdx])
  /\ pc' = "list"
  /\ lineIdx' = 1
  /\ UNCHANGED <<argv, disk, listFiles, assumeTriangles, argIdx, filenames, width,
                 fileIdx, parse, numPassed, numFailed, stdout, stderr, exitStatus>>
  /\ OutsideBatch

ListFileOpenFailure_Aborts ==
  /\ pc = "args"
  /\ argIdx <= Len(argv)
  /\ argv[argIdx][1] # "-"
  /\ has_extension(argv[argIdx], kTxtExtension)
  /\ ~fopen_ok(argv[argIdx])
  /\ stderr' = Append(stderr, <<"Failed to open", argv[argIdx]>>)
  /\ exitStatus' = "EXIT_FAILURE"
  /\ pc' = "exited"
  /\ UNCHANGED <<argv, disk, listFiles, assumeTriangles, argIdx, lineIdx, filenames,
                 width, fileIdx, parse, numPassed, numFailed, stdout>>
  /\ OutsideBatch

\* Lines 259-260, 270-272.
ListFileOpenFailure ==
  /\ pc = "args"
  /\ argIdx <= Len(argv)
  /\ argv[argIdx][1] # "-"
  /\ has_extension(argv[argIdx], kTxtExtension)
  /\ ~fopen_ok(argv[argIdx])
  /\ stderr' = Append(stderr, <<"Failed to open", argv[argIdx]>>)
  /\ argIdx' = argIdx + 1
  /\ UNCHANGED <<argv, disk, listFiles, pc, assumeTriangles, lineIdx, filenames,
                 width, fileIdx, parse, numPassed, numFailed, stdout, exitStatus>>
  /\ OutsideBatch

\* Lines 274-276.
DirectFilename ==
  /\ pc = "args"
  /\ argIdx <= Len(argv)
  /\ argv[argIdx][1] # "-"
  /\ ~has_extension(argv[argIdx], kTxtExtension)
  /\ filenames' = Append(filenames, argv[argIdx])
  /\ argIdx' = argIdx + 1
  /\ UNCHANGED <<argv, disk, listFiles, pc, assumeTriangles, lineIdx, width,
                 fileIdx, parse, numPassed, numFailed, stdout, stderr, exitStatus>>
  /\ OutsideBatch

CurrentLine == listFiles[argv[argIdx]][lineIdx]

\* Lines 262-267: a line that still holds a character once its newline is
\* popped.
ReadLine ==
  /\ pc = "list"
  /\ lineIdx <= Len(listFiles[argv[argIdx]])
  /\ PopNewlines(CurrentLine) # <<>>
  /\ filenames' = Append(filenames, PopNewlines(CurrentLine))
  /\ lineIdx' = lineIdx + 1
  /\ UNCHANGED <<argv, disk, listFiles, pc, assumeTriangles, argIdx, width, fileIdx,
                 parse, numPassed, numFailed, stdout, stderr, exitStatus>>
  /\ OutsideBatch

\* Lines 262-267 on a line holding only its newline: once it is popped the
\* loop calls back() on an empty string, which is undefined.  A build that
\* reads the byte before the buffer finds no newline there and keeps the
\* empty filename.
ReadBlankLineKept ==
  /\ pc = "list"
  /\ lineIdx <= Len(listFiles[argv[argIdx]])
  /\ PopNewlines(CurrentLine) = <<>>
  /\ filenames' = Append(filenames, EmptyName)
  /\ lineIdx' = lineIdx + 1
  /\ UNCHANGED <<argv, disk, listFiles, pc, assumeTriangles, argIdx, width, fileIdx,
                 parse, numPassed, numFailed, stdout, stderr, exitStatus>>
  /\ OutsideBatch

\* The same line in a build whose back() checks its precondition: the
\* process is aborted.
ReadBlankLineTrap ==
  /\ pc = "list"
  /\ lineIdx <= Len(listFiles[argv[argIdx]])
  /\ PopNewlines(CurrentLine) = <<>>
  /\ filenames' = Append(filenames, EmptyName)
  /\ pc' = "aborted"
  /\ UNCHANGED <<argv, disk, listFiles, assumeTriangles, argIdx, lineIdx, width,
                 fileIdx, parse, numPassed, numFailed, stdout, stderr, exitStatus>>
  /\ OutsideBatch

\* Lines 262, 268: fgets finds no more lines.
CloseListFile ==
  /\ pc = "list"
  /\ lineIdx > Len(listFiles[argv[argIdx]])
  /\ lineIdx' = 0
  /\ argIdx' = argIdx + 1
  /\ pc' = "args"
  /\ UNCHANGED <<argv, disk, listFiles, assumeTriangles, filenames, width, fileIdx,
                 parse, numPassed, numFailed, stdout, stderr, exitStatus>>
  /\ OutsideBatch

\* Lines 279-282.
NoInputFiles ==
  /\ pc = "args"
  /\ argIdx > Len(argv)
  /\ filenames = <<>>
  /\ stderr' = Append(stderr, <<"No input files provided.">>)
  /\ exitStatus' = "EXIT_SUCCESS"
  /\ pc' = "exited"
  /\ UNCHANGED <<argv, disk, listFiles, assumeTriangles, argIdx, lineIdx, filenames,
                 width, fileIdx, parse, numPassed, numFailed, stdout>>
  /\ OutsideBatch

\* Lines 279, 284-294.
StartBatch ==
  /\ pc = "args"
  /\ argIdx > Len(argv)
  /\ filenames # <<>>
  /\ width' = MaxWidth(filenames)
  /\ numPassed' = 0
  /\ numFailed' = 0
  /\ fileIdx' = 1
  /\ pc' = "loop"
  /\ overallTimer' = Timer(TRUE, now)
  /\ trace' = Append(trace, Event("overallTimer.start", 0, now))
  /\ Elapse(1)
  /\ UNCHANGED <<argv, disk, listFiles, assumeTriangles, argIdx, lineIdx, filenames,
                 parse, stdout, stderr, exitStatus, timer, heap, history, ret>>

BeginFile_FlagLostAfterFailure ==
  /\ pc = "loop"
  /\ fileIdx <= Len(filenames)
  /\ timer' = Timer(TRUE, now)
  /\ trace' = Append(trace, Event("timer.start", fileIdx, now))
  /\ parse' = Enter(OpenPly(filenames[fileIdx]),
                    assumeTriangles /\ \A k \in 1..Len(stdout) : stdout[k].ok)
  /\ pc' = "parse"
  /\ Elapse(1)
  /\ UNCHANGED <<argv, disk, listFiles, assumeTriangles, argIdx, lineIdx, filenames,
                 width, fileIdx, numPassed, numFailed, stdout, stderr, exitStatus,
                 overallTimer, heap, history, ret>>

\* Lines 295-298: the next filename; its timer is started and the call is
\* entered.
BeginFile ==
  /\ pc = "loop"
  /\ fileIdx <= Len(filenames)
  /\ timer' = Timer(TRUE, now)
  /\ trace' = Append(trace, Event("timer.start", fileIdx, now))
  /\ parse' = Enter(OpenPly(filenames[fileIdx]), assumeTriangles)
  /\ pc' = "parse"
  /\ Elapse(1)
  /\ UNCHANGED <<argv, disk, listFiles, assumeTriangles, argIdx, lineIdx, filenames,
                 width, fileIdx, numPassed, numFailed, stdout, stderr, exitStatus,
                 overallTimer, heap, history, ret>>

\* What a step of the call does to the rest of the program: the heap takes
\* what the step allocated and deleted, and the return is an event.
ParseUnchanged ==
  /\ heap' = [arrays |-> heap.arrays + parse'.heap.arrays - parse.heap.arrays,
              meshes |-> heap.meshes + parse'.heap.meshes - parse.heap.meshes]
  /\ trace' = IF parse'.at = "returned"
              THEN Append(trace, Event("returned", fileIdx, now)) ELSE trace
  /\ Elapse(1)
  /\ UNCHANGED <<argv, disk, listFiles, pc, assumeTriangles, argIdx, lineIdx, filenames,
                 width, fileIdx, numPassed, numFailed, stdout, exitStatus,
                 overallTimer, timer, history, ret>>

\* What a step of the call added to stderr.
Written(before, after) == SubSeq(after.err, Len(before.err) + 1, Len(after.err))

\* Lines 125-142.
OpenFile ==
  /\ pc = "parse"
  /\ parse.at = "open"
  /\ parse' = OpenReader(parse)
  /\ stderr' = stderr
  /\ ParseUnchanged

InLoop(branch) ==
  /\ pc = "parse"
  /\ parse.at = "loop"
  /\ LoopCondition(parse)
  /\ Branch(parse) = branch

\* Lines 144-164, 217.
VertexElement ==
  /\ InLoop("vertex")
  /\ parse' = VertexBranch(parse)
  /\ stderr' = stderr \o Written(parse, parse')
  /\ ParseUnchanged

\* Lines 165-196, 217.
FaceElement ==
  /\ InLoop("face")
  /\ \E junk \in IndexValues : parse' = FaceBranch(parse, junk)
  /\ stderr' = stderr \o Written(parse, parse')
  /\ ParseUnchanged

\* Lines 197-216, 217.
TristripsElement ==
  /\ InLoop("tristrips")
  /\ parse' = TristripsBranch(parse)
  /\ stderr' = stderr \o Written(parse, parse')
  /\ ParseUnchanged

\* Line 217 alone: an element that is not consumed.
SkipElement ==
  /\ InLoop("skip")
  /\ parse' = next_element(parse)
  /\ stderr' = stderr
  /\ ParseUnchanged

\* Lines 220-225.
ValidateMesh ==
  /\ pc = "parse"
  /\ \/ parse.at = "validate"
     \/ parse.at = "loop" /\ ~LoopCondition(parse)
  /\ parse' = Validate(parse)
  /\ stderr' = stderr
  /\ ParseUnchanged

ReportLine(name, ok, ms) == [filename |-> name, ok |-> ok, ms |-> ms]

\* Lines 313-317: the events of the end of an iteration, a tick apart.
EndEvents(file, time) ==
  <<Event("timer.stop", file, time), Event("delete", file, time + 1),
    Event("report", file, time + 2)>>

EndFile_StopAtFailure ==
  /\ pc = "parse"
  /\ parse.at = "returned"
  /\ timer' = stop(timer, now)
  /\ heap' = DeleteTriMesh(heap, parse.result)
  /\ LET ok == parse.result # NullPtr
     IN /\ stdout' = Append(stdout, ReportLine(filenames[fileIdx], ok,
                                               elapsedMS(timer', now + 2)))
        /\ numFailed' = IF ~ok THEN numFailed + 1 ELSE numFailed
        /\ numPassed' = IF ~ok THEN numPassed ELSE numPassed + 1
        /\ fileIdx' = IF ok THEN fileIdx + 1 ELSE Len(filenames) + 1
  /\ trace' = trace \o EndEvents(fileIdx, now)
  /\ parse' = NoCall
  /\ pc' = "loop"
  /\ Elapse(3)
  /\ UNCHANGED <<argv, disk, listFiles, assumeTriangles, argIdx, lineIdx, filenames,
                 width, stderr, exitStatus, overallTimer, history, ret>>

EndFile_ReadsRunningTimer ==
  /\ pc = "parse"
  /\ parse.at = "returned"
  /\ timer' = stop(timer, now)
  /\ heap' = DeleteTriMesh(heap, parse.result)
  /\ LET ok == parse.result # NullPtr
     IN /\ stdout' = Append(stdout, ReportLine(filenames[fileIdx], ok,
                                               elapsedMS(timer, now + 2)))
        /\ numFailed' = IF ~ok THEN numFailed + 1 ELSE numFailed
        /\ numPassed' = IF ~ok THEN numPassed ELSE numPassed + 1
  /\ trace' = trace \o EndEvents(fileIdx, now)
  /\ parse' = NoCall
  /\ fileIdx' = fileIdx + 1
  /\ pc' = "loop"
  /\ Elapse(3)
  /\ UNCHANGED <<argv, disk, listFiles, assumeTriangles, argIdx, lineIdx, filenames,
                 width, stderr, exitStatus, overallTimer, history, ret>>

\* Lines 298-299, 313-324: the call has returned.  The timer is stopped,
\* then the mesh is deleted, then the line is printed with what the timer
\* reads by then, and the outcome is tallied.
EndFile ==
  /\ pc = "parse"
  /\ parse.at = "returned"
  /\ timer' = stop(timer, now)
  /\ heap' = DeleteTriMesh(heap, parse.result)
  /\ LET ok == parse.result # NullPtr
     IN /\ stdout' = Append(stdout, ReportLine(filenames[fileIdx], ok,
                                               elapsedMS(timer', now + 2)))
        /\ numFailed' = IF ~ok THEN numFailed + 1 ELSE numFailed
        /\ numPassed' = IF ~ok THEN numPassed ELSE numPassed + 1
  /\ trace' = trace \o EndEvents(fileIdx, now)
  /\ parse' = NoCall
  /\ fileIdx' = fileIdx + 1
  /\ pc' = "loop"
  /\ Elapse(3)
  /\ UNCHANGED <<argv, disk, listFiles, assumeTriangles, argIdx, lineIdx, filenames,
                 width, stderr, exitStatus, overallTimer, history, ret>>

ExitCode_MoreThanOne(failed) == IF failed > 1 THEN "EXIT_FAILURE" ELSE "EXIT_SUCCESS"

\* Line 332.
ExitCode(failed) == IF failed > 0 THEN "EXIT_FAILURE" ELSE "EXIT_SUCCESS"

\* Lines 327-332: the overall timer is stopped, then the totals are printed.
Finish ==
  /\ pc = "loop"
  /\ fileIdx > Len(filenames)
  /\ overallTimer' = stop(overallTimer, now)
  /\ trace' = Append(trace, Event("overallTimer.stop", 0, now))
  /\ stdout' = Append(stdout, [total |-> elapsedMS(overallTimer', now + 1),
                               passed |-> numPassed, failed |-> numFailed])
  /\ exitStatus' = ExitCode(numFailed)
  /\ pc' = "exited"
  /\ Elapse(2)
  /\ UNCHANGED <<argv, disk, listFiles, assumeTriangles, argIdx, lineIdx, filenames,
                 width, fileIdx, parse, numPassed, numFailed, stderr,
                 timer, heap, history, ret>>

Next ==
  \/ ScanFlags
  \/ SkipOption
  \/ OpenListFile
  \/ ListFileOpenFailure
  \/ DirectFilename
  \/ ReadLine
  \/ ReadBlankLineKept
  \/ ReadBlankLineTrap
  \/ CloseListFile
  \/ NoInputFiles
  \/ StartBatch
  \/ BeginFile
  \/ OpenFile
  \/ VertexElement
  \/ FaceElement
  \/ TristripsElement
  \/ SkipElement
  \/ ValidateMesh
  \/ EndFile
  \/ Finish

Spec == Init /\ [][Next]_vars


(***************************************************************************)
(* Properties.                                                             *)
(***************************************************************************)
Returned == pc = "parse" /\ parse.at = "returned"
Succeeded == Returned /\ parse.result # NullPtr

\* The index is a vertex of m.
InRange(m, index) == 0 <= index /\ index < m.numVerts
\* The index is the terminator of a strip or fan.
IsTerminator(m, index) ==
  m.topology # "Soup" /\ m.hasTerminator /\ index = m.terminator

\* C1: every index of a returned mesh is a vertex of the mesh, or the mesh
\* is not a soup, has a terminator and the index is that terminator.
C1_ReturnedIndicesValid ==
  Succeeded =>
    LET m == parse.result[1]
    IN /\ m.indices.alloc
       /\ Len(m.indices.data) = m.numIndices
       /\ \A i \in 1..m.numIndices :
            InRange(m, m.indices.data[i]) \/ IsTerminator(m, m.indices.data[i])

\* A returned strip mesh holding both a vertex index and a terminator.
C1_Witness ==
  /\ Succeeded
  /\ LET m == parse.result[1]
     IN /\ m.topology = "Strip"
        /\ \E i \in 1..m.numIndices : InRange(m, m.indices.data[i])
        /\ \E i \in 1..m.numIndices : m.indices.data[i] = -1

\* What the call returns for the file without the flag, whatever the heap held.
ReturnsAsWithoutFlag(ptr, file) ==
  \A junk \in IndexValues : ptr = parse_file_with_miniply(file, FALSE, junk)

HasNoFaceElement(file) == valid(file) /\ find_element(file, kPLYFaceElement) = 0

\* C2: with the flag requested and no face element in the file, the call
\* does not fail for that reason: it returns what it returns without the flag.
C2_NoFaceElementDemotes ==
  Returned /\ assumeTriangles /\ HasNoFaceElement(parse.file)
    => ReturnsAsWithoutFlag(parse.result, parse.file)

\* The file has one vertex element, loadable and with positions, before its
\* first face element, nothing but unrelated elements around them up to the
\* face element, and the face element's lists are not all of length 3 and
\* hold only vertices of the vertex element.
VariableFacesAfterVertices(file) ==
  /\ valid(file)
  /\ LET vi == find_element(file, kPLYVertexElement)
         fi == find_element(file, kPLYFaceElement)
     IN /\ vi # 0 /\ fi # 0 /\ vi < fi
        /\ \A j \in 1..fi : j \notin {vi, fi} => file.elems[j].name = kOtherElement
        /\ LET v == file.elems[vi]
               f == file.elems[fi]
           IN /\ v.ok /\ "pos" \in v.props
              /\ f.ok /\ "vertex_indices" \in f.props
              /\ \E r \in 1..Len(f.lists) : Len(f.lists[r]) # 3
              /\ \A r \in 1..Len(f.lists) : \A k \in 1..Len(f.lists[r]) :
                   0 <= f.lists[r][k] /\ f.lists[r][k] < v.nrows

\* C3: with the flag requested on such a file the call succeeds, having
\* triangulated through the reader, and returns the mesh it returns without
\* the flag.
C3_FastPathDemotion ==
  Returned /\ assumeTriangles /\ VariableFacesAfterVertices(parse.file)
    => /\ parse.result # NullPtr
       /\ ~parse.assumeTriangles
       /\ \E c \in 1..Len(parse.calls) : parse.calls[c][1] = "extract_triangles"
       /\ all_indices_valid(parse.result[1])
       /\ ReturnsAsWithoutFlag(parse.result, parse.file)

\* The flag was requested, the file has a triangle and a quad after its
\* vertices, and the mesh of three triangles is returned.
C3_Witness ==
  /\ Succeeded /\ assumeTriangles /\ VariableFacesAfterVertices(parse.file)
  /\ parse.result[1].numIndices = 9

HasNoElement(file, names) ==
  \A i \in 1..Len(file.elems) : file.elems[i].name \notin names

\* C4: a call that returns without having consumed both a vertex element and
\* a face or tristrips element returns null and has deleted its mesh; so
\* does every call on a file that has no vertex element, or neither a face
\* nor a tristrips element.
C4_MissingElementFails ==
  Returned =>
    /\ ~parse.gotVerts \/ ~parse.gotFaces
         => parse.result = NullPtr /\ parse.trimesh = NullPtr
    /\ HasNoElement(parse.file, {kPLYVertexElement}) => parse.result = NullPtr
    /\ HasNoElement(parse.file, {kPLYFaceElement, kTristripsElement})
         => parse.result = NullPtr

\* A call returned null on a decodable file whose vertex element was
\* consumed (its buffers were filled) and which has no index element.
C4_Witness ==
  /\ Returned /\ parse.gotVerts /\ ~parse.gotFaces
  /\ HasNoElement(parse.file, {kPLYFaceElement, kTristripsElement})
  /\ parse.result = NullPtr

AboutToValidate ==
  /\ pc = "parse"
  /\ parse.at = "validate" \/ (parse.at = "loop" /\ ~LoopCondition(parse))

HasBadIndex(m) ==
  \E i \in 1..Len(m.indices.data) :
    ~InRange(m, m.indices.data[i]) /\ ~IsTerminator(m, m.indices.data[i])

\* C5: when the mesh that reaches validation holds an index that is neither
\* a vertex of it nor a recognized terminator, the call returns null and the
\* mesh is deleted.
C5_BadIndexFails ==
  [][AboutToValidate /\ HasBadIndex(parse.trimesh[1])
       => parse'.at = "returned" /\ parse'.result = NullPtr /\ parse'.trimesh = NullPtr]_vars

\* Both elements were consumed, the face element first and on the fast
\* path, and the call returned null: validation rejected the mesh.
C5_Witness ==
  /\ Returned /\ parse.gotVerts /\ parse.gotFaces /\ parse.result = NullPtr
  /\ parse.assumeTriangles
  /\ parse.file.elems[1].name = kPLYFaceElement

\* The first element of the file that is not an unrelated one is a face
\* element that loads, has an index list, and needs triangulation.
PolygonsBeforeVertices(file) ==
  /\ valid(file)
  /\ \E i \in 1..Len(file.elems) :
       /\ file.elems[i].name = kPLYFaceElement
       /\ \A j \in 1..(i - 1) : file.elems[j].name = kOtherElement
       /\ load_element(file.elems[i])
       /\ find_indices(file.elems[i])
       /\ requires_triangulation(file.elems[i])

Triangulated(ps) == \E c \in 1..Len(ps.calls) : ps.calls[c][1] = "extract_triangles"
WroteOrderingError(ps) == \E k \in 1..Len(ps.err) : ps.err[k] = kOrderingError

\* C6: a call that meets face data needing triangulation before any vertex
\* element was consumed writes the ordering diagnostic, never triangulates
\* and returns null, whatever follows in the file.
C6_OrderingFailure ==
  Returned =>
    /\ PolygonsBeforeVertices(parse.file)
         => /\ WroteOrderingError(parse)
            /\ stderr # <<>> /\ stderr[Len(stderr)] = kOrderingError
    /\ WroteOrderingError(parse)
         => /\ ~Triangulated(parse)
            /\ ~parse.gotFaces
            /\ parse.result = NullPtr

\* The ordering failure on a file whose polygons are followed by a valid
\* vertex element.
C6_Witness ==
  /\ Returned /\ WroteOrderingError(parse) /\ parse.result = NullPtr
  /\ \E i \in 1..Len(parse.file.elems) :
       /\ i > parse.idx
       /\ parse.file.elems[i].name = kPLYVertexElement
       /\ parse.file.elems[i].ok /\ "pos" \in parse.file.elems[i].props


Resolved == pc \in {"loop", "parse", "exited"}
IsReport(line) == "filename" \in DOMAIN line
Reports == SelectSeq(stdout, IsReport)
\* The extraction of the named file with main's flag succeeds.
ExtractionSucceeds(name) ==
  \A junk \in IndexValues :
    parse_file_with_miniply(OpenPly(name), assumeTriangles, junk) # NullPtr

\* C7: the files are processed one at a time in the order resolved; each,
\* failed or not, has exactly one report line and one increment of numPassed
\* or numFailed, so that at the end numPassed + numFailed is the number of
\* resolved files, numPassed the number of extractions that succeed and
\* numFailed the number that fail.
C7_BatchTally ==
  /\ pc = "parse" <=> parse # NoCall
  /\ Resolved =>
       /\ Len(Reports) = IF pc = "exited" THEN Len(filenames) ELSE fileIdx - 1
       /\ \A i \in 1..Len(Reports) :
            /\ Reports[i].filename = filenames[i]
            /\ Reports[i].ok = ExtractionSucceeds(filenames[i])
       /\ numPassed = Cardinality({i \in 1..Len(Reports) : Reports[i].ok})
       /\ numFailed = Cardinality({i \in 1..Len(Reports) : ~Reports[i].ok})
       /\ numPassed + numFailed = Len(Reports)
       /\ pc = "parse" =>
            /\ fileIdx \in 1..Len(filenames)
            /\ parse.file = OpenPly(filenames[fileIdx])
            /\ parse.assumeTriangles \in {assumeTriangles, FALSE}

\* A batch of three files has ended: the first passed, the second failed,
\* the third passed.
C7_Witness ==
  /\ pc = "exited"
  /\ Len(filenames) = 3
  /\ Len(Reports) = 3
  /\ Reports[1].ok /\ ~Reports[2].ok /\ Reports[3].ok
  /\ numPassed = 2 /\ numFailed = 1

\* C8: main returns failure exactly when the extraction of some resolved
\* file fails; it returns success when none fails, and when no file
\* resolved, in which case no file was processed.
C8_ExitStatus ==
  /\ pc = "exited" <=> exitStatus # "none"
  /\ pc = "exited" =>
       /\ exitStatus \in {"EXIT_SUCCESS", "EXIT_FAILURE"}
       /\ exitStatus = "EXIT_FAILURE"
            <=> \E i \in 1..Len(filenames) : ~ExtractionSucceeds(filenames[i])
       /\ filenames = <<>> =>
            /\ exitStatus = "EXIT_SUCCESS"
            /\ stdout = <<>>
            /\ fileIdx = 0

\* main returned failure after a batch in which a file passed and a file
\* failed.
C8_Witness ==
  /\ pc = "exited"
  /\ exitStatus = "EXIT_FAILURE"
  /\ numPassed > 0 /\ numFailed > 0

NonEmpty(str) == str # <<>>
\* The non-empty lines of a list file, their newlines stripped.
NonEmptyLines(content) == SelectSeq(ReadLines(content), NonEmpty)

\* C9: once the lines of an opened list file are read, what it has added to
\* the filenames is its non-empty lines, in order and stripped of their
\* newlines.
C9_ListFileLines ==
  pc = "list" /\ lineIdx > Len(listFiles[argv[argIdx]])
    => filenames = ResolveArgs(SubSeq(argv, 1, argIdx - 1), listFiles)
                     \o NonEmptyLines(listFiles[argv[argIdx]])

Unopenable(arg) ==
  arg[1] # "-" /\ has_extension(arg, kTxtExtension) /\ arg \notin DOMAIN listFiles
Openable(arg) == ~Unopenable(arg)
IsOpenFailure(msg) == msg[1] = "Failed to open"

\* C10: a list file that cannot be opened is reported and adds no filename;
\* the filenames resolved, the files processed and main's status are those
\* of the command line without it, so that a command line of nothing but
\* such list files resolves no file and returns success.
C10_ListFileOpenFailure ==
  /\ Len(SelectSeq(stderr, IsOpenFailure))
       = Cardinality({i \in 1..Len(argv) : i < argIdx /\ Unopenable(argv[i])})
  /\ Resolved => filenames = ResolveArgs(SelectSeq(argv, Openable), listFiles)
  /\ pc = "exited" =>
       /\ [i \in 1..Len(Reports) |-> Reports[i].filename]
            = ResolveArgs(SelectSeq(argv, Openable), listFiles)
       /\ exitStatus = "EXIT_FAILURE" =>
            \E i \in 1..Len(Reports) : ~Reports[i].ok
       /\ (\A i \in 1..Len(argv) : Unopenable(argv[i]))
            => exitStatus = "EXIT_SUCCESS" /\ filenames = <<>>

\* A command line whose first argument is a list file that cannot be opened
\* and whose second is a file: the file was processed and main returned
\* success.
C10_Witness ==
  /\ pc = "exited"
  /\ Len(argv) >= 2
  /\ Unopenable(argv[1])
  /\ argv[2] = NameA
  /\ Len(Reports) = 1 /\ Reports[1].filename = NameA
  /\ exitStatus = "EXIT_SUCCESS"

(***************************************************************************)
(* The vertex attributes of the mesh (lines 86-90, 144-164).               *)
(***************************************************************************)
\* The values extract_properties writes for the attribute of the element.
Populated(buf, e, attr, ncomp) ==
  /\ buf.alloc
  /\ Len(buf.data) = num_rows(e) * ncomp
  /\ buf.data = extract_properties(e, attr, ncomp)

\* The vertex elements the call loaded and extracted positions from, in
\* file order.
IsConsumedVertex(ps, i) ==
  /\ ps.file.elems[i].name = kPLYVertexElement
  /\ \E k \in 1..Len(ps.calls) : ps.calls[k] = <<"load_element", i>>
  /\ load_element(ps.file.elems[i])
  /\ find_pos(ps.file.elems[i])
ConsumedVertices(ps) == {i \in 1..Len(ps.file.elems) : IsConsumedVertex(ps, i)}
LastConsumedVertex(ps) ==
  CHOOSE i \in ConsumedVertices(ps) : \A j \in ConsumedVertices(ps) : j <= i

\* The buffer is absent, or holds numVerts * ncomp values.
SizedForVerts(m, buf, ncomp) == buf.alloc => Len(buf.data) = m.numVerts * ncomp

\* C11: in every mesh returned as a success each attribute buffer that is
\* present (pos, and normal, uv, color when present) holds numVerts times its
\* component count values, the ones read from the vertex element the vertex
\* count came from.
C11_AttributeBuffersPopulated ==
  Succeeded =>
    LET m == parse.result[1]
        e == parse.file.elems[LastConsumedVertex(parse)]
    IN /\ m.numVerts = num_rows(e)
       /\ Populated(m.pos, e, "pos", 3)
       /\ m.normal.alloc => Populated(m.normal, e, "normal", 3)
       /\ m.uv.alloc => Populated(m.uv, e, "uv", 2)
       /\ m.color.alloc => Populated(m.color, e, "color", 4)
       /\ SizedForVerts(m, m.normal, 3)
       /\ SizedForVerts(m, m.uv, 2)
       /\ SizedForVerts(m, m.color, 4)

\* The number of vertex elements of the file.
VertexElementCount(file) ==
  Cardinality({i \in 1..Len(file.elems) : file.elems[i].name = kPLYVertexElement})

\* The file with the properties in attrs removed from its vertex elements.
WithoutAttrs(file, attrs) ==
  LET strip(e) == IF e.name = kPLYVertexElement
                  THEN [e EXCEPT !.props = @ \ attrs] ELSE e
  IN [file EXCEPT !.elems = [i \in 1..Len(file.elems) |-> strip(file.elems[i])]]

\* A vertex element the call loaded that has no position property.
LoadedVertexWithoutPos(ps) ==
  \E i \in 1..Len(ps.file.elems) :
    /\ ps.file.elems[i].name = kPLYVertexElement
    /\ \E k \in 1..Len(ps.calls) : ps.calls[k] = <<"load_element", i>>
    /\ ~find_pos(ps.file.elems[i])

\* Position is mandatory: a loaded vertex element without it fails the call.
PositionMandatory == Returned /\ LoadedVertexWithoutPos(parse) => parse.result = NullPtr

\* Removing any set of the optional attributes from the vertex elements
\* leaves the pass/fail outcome as it is.
OptionalAttrsKeepOutcome ==
  Returned =>
    \A attrs \in SUBSET OptionalAttrs : \A junk \in IndexValues :
      (parse.result # NullPtr)
        = (parse_file_with_miniply(WithoutAttrs(parse.file, attrs),
                                   assumeTriangles, junk) # NullPtr)

\* The buffer is present exactly if the property was found on the vertex
\* element, and an absent one is null.
PresentIffFound(ps, buf, attr) ==
  /\ \A i \in ConsumedVertices(ps) : buf.alloc <=> attr \in ps.file.elems[i].props
  /\ ~buf.alloc => buf = NullBuf

\* C12: a vertex element without a position property makes the extraction
\* fail; the absence of any subset of normal, uv and color never changes the
\* pass/fail outcome; and in a returned mesh each of the normal, uv and color
\* buffers is present if and only if the property was found on the vertex
\* element.
C12_AttributeOptionality ==
  /\ PositionMandatory
  /\ OptionalAttrsKeepOutcome
  /\ Succeeded =>
       LET m == parse.result[1]
       IN /\ PresentIffFound(parse, m.normal, "normal")
          /\ PresentIffFound(parse, m.uv, "uv")
          /\ PresentIffFound(parse, m.color, "color")

(***************************************************************************)
(* Topology of the mesh (lines 66-70, 96-98, 165-216).                     *)
(***************************************************************************)
\* The face or tristrips element the call loaded; a call loads at most one,
\* since a failed load leaves the loop and a successful one sets gotFaces.
IsIndexElement(e) == e.name \in {kPLYFaceElement, kTristripsElement}
LoadedIndexElements(ps) ==
  {i \in 1..Len(ps.file.elems) :
     /\ IsIndexElement(ps.file.elems[i])
     /\ \E k \in 1..Len(ps.calls) : ps.calls[k] = <<"load_element", i>>}
IndexSource(ps) == ps.file.elems[CHOOSE i \in LoadedIndexElements(ps) : TRUE]

RECURSIVE SumOfLengths(_)
SumOfLengths(lists) ==
  IF lists = <<>> THEN 0 ELSE Len(Head(lists)) + SumOfLengths(Tail(lists))

\* C13: a returned mesh whose indices came from the tristrips element has
\* topology Strip, hasTerminator true, terminator -1 and as many indices as
\* the strip rows are long in sum, and was returned although its indices may
\* hold -1; one whose indices came from the face element has topology Soup
\* and hasTerminator false.  No mesh ever has topology Fan.
C13_TopologyFromSource ==
  /\ pc = "parse" /\ parse.trimesh # NullPtr => parse.trimesh[1].topology # "Fan"
  /\ Succeeded =>
       LET m == parse.result[1]
           src == IndexSource(parse)
       IN /\ Cardinality(LoadedIndexElements(parse)) = 1
          /\ m.topology # "Fan"
          /\ src.name = kTristripsElement =>
               /\ m.topology = "Strip"
               /\ m.hasTerminator
               /\ m.terminator = -1
               /\ m.numIndices = SumOfLengths(src.lists)
               /\ Len(m.indices.data) = m.numIndices
          /\ src.name = kPLYFaceElement =>
               /\ m.topology = "Soup"
               /\ ~m.hasTerminator

\* A returned mesh from two strip rows, one of them of terminators only.
C13_Witness ==
  /\ Succeeded
  /\ IndexSource(parse).name = kTristripsElement
  /\ Len(IndexSource(parse).lists) = 2
  /\ LET m == parse.result[1]
     IN /\ m.numIndices = 7
        /\ \E i \in 1..m.numIndices : m.indices.data[i] = -1
        /\ \E i \in 1..m.numIndices : m.indices.data[i] = 0

\* The meshes of the current state: the one the call is building and the
\* one it returned.
LiveMeshes ==
  IF pc # "parse" THEN {}
  ELSE {parse.trimesh[i] : i \in 1..Len(parse.trimesh)}
       \cup {parse.result[i] : i \in 1..Len(parse.result)}

\* C14: in every reachable mesh state with topology Soup, whichever of the
\* fast, triangulating and direct paths wrote the indices, numIndices is a
\* multiple of 3 (and is the length of the index array, once allocated).
C14_SoupIndexCount ==
  \A m \in LiveMeshes :
    m.topology = "Soup" =>
      /\ m.numIndices % 3 = 0
      /\ m.indices.alloc => Len(m.indices.data) = m.numIndices

\* A soup mesh in the loop, just after a triangle and a quad were triangulated.
C14_Witness ==
  /\ pc = "parse" /\ parse.at = "loop" /\ parse.gotFaces
  /\ ~parse.assumeTriangles
  /\ Triangulated(parse)
  /\ \E m \in LiveMeshes : m.topology = "Soup" /\ m.numIndices = 9

(***************************************************************************)
(* Determinism and independence of the extractions of a batch.             *)
(***************************************************************************)
\* The flag as the command line gives it (lines 246-252).
FlagRequested == \E i \in 1..Len(argv) : argv[i] = kAssumeTrianglesFlag

MeshStep ==
  /\ pc = "parse" /\ pc' = "parse"
  /\ parse.trimesh # NullPtr /\ parse'.trimesh # NullPtr

SameVertexData(m1, m2) ==
  /\ m1.numVerts = m2.numVerts
  /\ m1.pos = m2.pos
  /\ m1.normal = m2.normal
  /\ m1.uv = m2.uv
  /\ m1.color = m2.color

SameIndexData(m1, m2) ==
  /\ m1.indices = m2.indices
  /\ m1.numIndices = m2.numIndices
  /\ m1.topology = m2.topology
  /\ m1.hasTerminator = m2.hasTerminator
  /\ m1.terminator = m2.terminator

\* Once a vertex element was consumed no step changes the vertex count or
\* the attribute buffers.
VertexDataSettled ==
  MeshStep /\ parse.gotVerts => SameVertexData(parse.trimesh[1], parse'.trimesh[1])

\* Once a face or tristrips element was consumed no step changes the
\* indices or the topology.
IndexDataSettled ==
  MeshStep /\ parse.gotFaces => SameIndexData(parse.trimesh[1], parse'.trimesh[1])

\* Elements are visited in file order, one per iteration.
VisitedInFileOrder ==
  pc = "parse" /\ pc' = "parse" /\ parse.at = "loop" =>
    parse'.idx \in {parse.idx, parse.idx + 1}

\* An element of any other name leaves the mesh as it is.
OtherNamesIgnored ==
  /\ MeshStep /\ parse.at = "loop" /\ LoopCondition(parse)
  /\ element(parse).name \notin {kPLYVertexElement, kPLYFaceElement, kTristripsElement}
  => parse'.trimesh = parse.trimesh /\ parse'.calls = parse.calls

\* Nothing is loaded once both kinds of element were consumed.
NothingLoadedAfterBoth ==
  pc = "parse" /\ pc' = "parse" /\ parse.gotVerts /\ parse.gotFaces =>
    parse'.calls = parse.calls

\* C16: first matching element wins.  Elements are visited in file order;
\* once a vertex element was consumed a later vertex element changes neither
\* the vertex count nor the attribute buffers; once a face or tristrips
\* element was consumed a later one changes neither indices nor topology;
\* elements of other names never affect the mesh; and no element is loaded
\* after both kinds were consumed.
C16_FirstMatchWins ==
  [][/\ VisitedInFileOrder
     /\ VertexDataSettled
     /\ IndexDataSettled
     /\ OtherNamesIgnored
     /\ NothingLoadedAfterBoth]_vars

\* The parts of it that hold.
C16_AllButVertexData ==
  [][/\ VisitedInFileOrder
     /\ IndexDataSettled
     /\ OtherNamesIgnored
     /\ NothingLoadedAfterBoth]_vars

(***************************************************************************)
(* Allocation and release (lines 100-106, 142-226, 315).                   *)
(***************************************************************************)
\* Between two files, and once main returned, nothing is left allocated.
BetweenFiles == pc \in {"loop", "exited"}
AllReleased == heap = EmptyHeap

\* C17: on every exit path of parse_file_with_miniply every buffer allocated
\* during the attempt is released before the next file's extraction starts
\* (and none is released twice, so the count never falls below zero), and
\* at no point in the batch is more than one mesh alive.
C17_ResourcesScoped ==
  /\ BetweenFiles => AllReleased
  /\ heap.arrays >= 0 /\ heap.meshes >= 0
  /\ heap.meshes <= 1

\* What of it holds: meshes are released, one is alive at most, nothing is
\* released twice, and a call that consumed at most one vertex element
\* leaves nothing behind.
C17_MeshesScoped ==
  /\ BetweenFiles => heap.meshes = 0
  /\ heap.arrays >= 0 /\ heap.meshes >= 0
  /\ heap.meshes <= 1
  /\ Returned /\ Cardinality(ConsumedVertices(parse)) <= 1 =>
       DeleteTriMesh(parse.heap, parse.result) = EmptyHeap

(***************************************************************************)
(* The Timer on its own: any sequence of start(), stop() and elapsedMS()   *)
(* calls on one timer, the clock advancing between them as it likes.       *)
(***************************************************************************)
TimerUnchanged ==
  UNCHANGED <<argv, disk, listFiles, pc, assumeTriangles, argIdx, lineIdx, filenames,
              width, fileIdx, parse, numPassed, numFailed, stdout, stderr, exitStatus,
              overallTimer, heap, trace>>

\* The history a construction leaves: a start() at the time of the
\* construction, if it started the timer.
HistoryOf(t, clock) ==
  IF t.running THEN [state |-> "running", started |-> clock, stopped |-> 0]
  ELSE NoHistory

\* Lines 30-35: a timer is constructed, started or not; nothing else of the
\* program runs.
InitTimer ==
  /\ argv = <<>>
  /\ disk = DiskOf(InvalidFile)
  /\ listFiles = NoListFiles
  /\ pc = "timer"
  /\ assumeTriangles = FALSE
  /\ argIdx = 1
  /\ lineIdx = 0
  /\ filenames = <<>>
  /\ width = 0
  /\ fileIdx = 0
  /\ parse = NoCall
  /\ numPassed = 0
  /\ numFailed = 0
  /\ stdout = <<>>
  /\ stderr = <<>>
  /\ exitStatus = "none"
  /\ now = 0
  /\ overallTimer = DefaultTimer
  /\ heap = EmptyHeap
  /\ trace = <<>>
  /\ \E autostart \in BOOLEAN :
       /\ timer = Timer(autostart, now)
       /\ history = HistoryOf(Timer(autostart, now), now)
  /\ ret = NoReading

ClockAdvances ==
  /\ now < MaxClock
  /\ now' = now + 1
  /\ UNCHANGED <<timer, history, ret>>
  /\ TimerUnchanged

\* Lines 38-42.
CallStart ==
  /\ timer' = start(timer, now)
  /\ history' = [history EXCEPT !.state = "running", !.started = now]
  /\ UNCHANGED <<now, ret>>
  /\ TimerUnchanged

\* Lines 45-51.
CallStop ==
  /\ timer' = stop(timer, now)
  /\ history' = IF history.state = "running"
                THEN [history EXCEPT !.state = "stopped", !.stopped = now]
                ELSE history
  /\ UNCHANGED <<now, ret>>
  /\ TimerUnchanged

\* Lines 54-59.
CallElapsedMS ==
  /\ ret' = [value |-> elapsedMS(timer, now), at |-> now]
  /\ UNCHANGED <<now, timer, history>>
  /\ TimerUnchanged

NextTimer ==
  \/ ClockAdvances
  \/ CallStart
  \/ CallStop
  \/ CallElapsedMS

SpecTimer == InitTimer /\ [][NextTimer]_vars

\* What elapsedMS() is to return at the given time, by the calls made.
Expected(h, clock) ==
  CASE h.state = "never" -> 0
    [] h.state = "running" -> clock - h.started
    [] h.state = "stopped" -> h.stopped - h.started

\* C18: for any sequence of start(), stop() and elapsedMS() calls against a
\* monotonic clock, elapsedMS() returns the current time minus the time of
\* the most recent start() while the timer runs, the stop time minus the
\* start time after a stop(), however much later it is read, and 0 on a
\* timer never started; it is never negative; and a stop() on a timer that
\* is not running changes nothing.
C18_TimerLifecycle ==
  [][/\ CallElapsedMS =>
          /\ ret'.value = Expected(history, now)
          /\ ret'.value >= 0
     /\ CallStop /\ history.state # "running" =>
          /\ timer' = timer
          /\ elapsedMS(timer', now) = elapsedMS(timer, now)]_vars

\* A reading taken later than the stop, equal to the time the timer ran.
C18_Witness ==
  /\ pc = "timer"
  /\ history.state = "stopped"
  /\ history.stopped > history.started
  /\ ret.at > history.stopped
  /\ ret.value = history.stopped - history.started

(***************************************************************************)
(* The order of the harness's events (lines 292-331).                      *)
(***************************************************************************)
FileEventNames == <<"timer.start", "returned", "timer.stop", "delete", "report">>
\* Where in the trace of a batch the j-th event of the k-th file stands, the
\* start of the overall timer being first.
EventAt(k, j) == 1 + Len(FileEventNames) * (k - 1) + j
\* The name and file of the i-th event of a batch of n files.
ExpectedEvent(i, n) ==
  IF i = 1 THEN <<"overallTimer.start", 0>>
  ELSE IF i = EventAt(n, Len(FileEventNames)) + 1 THEN <<"overallTimer.stop", 0>>
  ELSE <<FileEventNames[((i - 2) % Len(FileEventNames)) + 1],
         ((i - 2) \div Len(FileEventNames)) + 1>>

Summary == stdout[Len(stdout)]

\* C19: per file the events are, in this order and each later than the one
\* before: the file's timer is started, the extraction returns, the timer is
\* stopped, the mesh is deleted, the outcome line is printed and tallied;
\* the next file's timer starts only after that.  The time a line reports is
\* the stop time minus the start time, whatever elapsed after the stop.  The
\* overall timer is started before the first file and stopped after the
\* last one was tallied, and the total is the time between the two.
C19_HarnessEventOrder ==
  /\ \A i \in 1..Len(trace) :
       <<trace[i].event, trace[i].file>> = ExpectedEvent(i, Len(filenames))
  /\ \A i \in 1..(Len(trace) - 1) : trace[i].time < trace[i + 1].time
  /\ \A i \in 1..Len(trace) : trace[i].time < now
  /\ pc = "loop" => Len(trace) = EventAt(fileIdx, 0)
  /\ pc = "parse" =>
       Len(trace) = EventAt(fileIdx, IF parse.at = "returned" THEN 2 ELSE 1)
  /\ \A k \in 1..Len(Reports) :
       /\ EventAt(k, 5) <= Len(trace)
       /\ Reports[k].ms = trace[EventAt(k, 3)].time - trace[EventAt(k, 1)].time
       /\ Reports[k].filename = filenames[k]
  /\ numPassed + numFailed = Len(Reports)
  /\ pc = "exited" /\ trace # <<>> =>
       /\ Len(trace) = EventAt(Len(filenames), 5) + 1
       /\ Len(Reports) = Len(filenames)
       /\ Summary.total = trace[Len(trace)].time - trace[1].time

\* A batch of two files has run to its end; the first took longer to extract
\* than the second.
C19_Witness ==
  /\ pc = "exited"
  /\ Len(Reports) >= 2
  /\ Reports[1].ms > Reports[2].ms
  /\ Summary.total > Reports[1].ms + Reports[2].ms

(***************************************************************************)
(* The fast path against the general path (lines 130-137, 165-196).        *)
(***************************************************************************)
HasFaceElement(file) ==
  \E i \in 1..Len(file.elems) : file.elems[i].name = kPLYFaceElement

\* C20: for a file that contains a face element, wherever in the file it
\* and the other elements stand, the call returns with assumeTriangles what
\* it returns without: null in both cases, or meshes equal in vertex count,
\* attribute buffers, indices, topology and terminator settings.
C20_FastPathEquivalent ==
  Returned /\ HasFaceElement(parse.file) =>
    \A junk \in IndexValues :
      parse.result
        = parse_file_with_miniply(parse.file, ~FlagRequested, junk)

\* A call with the flag has returned a mesh of two triangles whose indices
\* were read on the fast path.
C20_Witness ==
  /\ Succeeded
  /\ FlagRequested
  /\ parse.assumeTriangles
  /\ parse.fixed # 0
  /\ \E k \in 1..Len(parse.calls) : parse.calls[k] = <<"load_element", parse.fixed>>
  /\ parse.result[1].numIndices = 6

====
